---- MODULE Spec2Model ----
(***************************************************************************)
(* A model of src/unzipped_epub_downloader/downloader.py: the download of  *)
(* an EPUB published unzipped on a web server (download_epub), and the     *)
(* command line in front of it (main and its option callbacks).            *)
(*                                                                         *)
(* A string holding a URL or a path is a record [netloc, path]: netloc is  *)
(* the scheme and authority ("" for a relative reference) and path is the  *)
(* string's path split on "/".  An option value of the command line is a   *)
(* sequence of one-character strings.                                      *)
(***************************************************************************)
EXTENDS Integers, Sequences, FiniteSets, TLC

VARIABLES
    pc,                     \* position in main / download_epub
    argv,                   \* raw option values given on the command line
    session,                \* requests.Session fields set by main
    site,                   \* the web server: URL -> response, as far as fixed
    requests,               \* every session.get issued so far, in order
    disk,                   \* the file at epub_filename
    entries,                \* the members written to epub_zip, in order
    exc,                    \* the exception that ended the run, or NoExc
    mimetype,               \* local of download_epub
    container_xml_content,  \* local of download_epub
    rootfile_paths,         \* local of download_epub
    content,                \* local: the bytes returned by the last fetch
    meta_i,                 \* index of the for loop of line 54
    rootfile_i,             \* index of the for loop of line 61
    manifest,               \* local of download_epub
    item_i,                 \* index of the for loop of line 69
    clock,                  \* time.time(), read by ZipFile.writestr
    run,                    \* 1 for the first run, 2 for its repetition
    prev                    \* the outcome of the first run, once repeated

vars == <<pc, argv, session, site, requests, disk, entries, exc, mimetype,
          container_xml_content, rootfile_paths, content, meta_i, rootfile_i,
          manifest, item_i, clock, run, prev>>

----------------------------------------------------------------------------
(* Bounds of the model *)

MaxRootfiles == 2
MaxItems == 2
MaxClock == 1
MaxOptLen == 2
MaxOptValues == 1

----------------------------------------------------------------------------
(* Strings holding URLs and paths *)

Rel(segs) == [netloc |-> "", path |-> segs]

base_url == [netloc |-> "http://x", path |-> <<"", "book", "">>]

Last(s) == s[Len(s)]
Front(s) == SubSeq(s, 1, Len(s) - 1)

\* segments[1:-1] = filter(None, segments[1:-1])
FilterMiddle(segs) ==
    IF Len(segs) <= 2 THEN segs
    ELSE <<segs[1]>>
         \o SelectSeq(SubSeq(segs, 2, Len(segs) - 1), LAMBDA x : x # "")
         \o <<Last(segs)>>

\* the loop over segments of urllib.parse.urljoin: ".." pops, "." is skipped
RECURSIVE ResolveDots(_, _)
ResolveDots(segs, acc) ==
    IF segs = <<>> THEN acc
    ELSE LET seg == Head(segs) IN
         IF seg = ".." THEN
             ResolveDots(Tail(segs), IF acc = <<>> THEN acc ELSE Front(acc))
         ELSE IF seg = "." THEN ResolveDots(Tail(segs), acc)
         ELSE ResolveDots(Tail(segs), Append(acc, seg))

\* urlunparse: with a netloc the path starts with "/"; an empty path is "/"
Unparse(netloc, segs) ==
    LET p == IF segs = <<>> \/ segs = <<"">> THEN <<"", "">> ELSE segs
    IN  [netloc |-> netloc,
         path |-> IF netloc # "" /\ p[1] # "" THEN <<"">> \o p ELSE p]

urljoin(base, url) ==
    IF url.netloc = "" /\ url.path = <<"">> THEN base
    ELSE IF url.netloc # "" THEN url
    ELSE LET base_parts == IF Last(base.path) # "" THEN Front(base.path)
                           ELSE base.path
             segments == IF url.path[1] = "" THEN url.path
                         ELSE FilterMiddle(base_parts \o url.path)
             resolved == ResolveDots(segments, <<>>)
             resolved_path == IF Last(segments) \in {".", ".."}
                              THEN Append(resolved, "") ELSE resolved
         IN  Unparse(base.netloc, resolved_path)

optional_meta_files ==
    << Rel(<<"META-INF", "encryption.xml">>),
       Rel(<<"META-INF", "manifest.xml">>),
       Rel(<<"META-INF", "metadata.xml">>),
       Rel(<<"META-INF", "rights.xml">>),
       Rel(<<"META-INF", "signatures.xml">>) >>

mimetype_name == Rel(<<"mimetype">>)
container_name == Rel(<<"META-INF", "container.xml">>)

----------------------------------------------------------------------------
(* XML documents and the bytes the server returns *)

NotXml == [wellformed |-> FALSE, elements |-> <<>>]
XmlDoc(elements) == [wellformed |-> TRUE, elements |-> elements]
NoContent == [origin |-> [netloc |-> "", path |-> <<>>], doc |-> NotXml]
NoExc == [type |-> "none", at |-> "none"]
NoAttrib == [a \in {} |-> <<>>]

\* the rootfile paths and manifest hrefs the model's documents draw from
RootfilePaths == { Rel(<<"OEBPS", "content.opf">>), Rel(<<"content.opf">>) }
Hrefs == { Rel(<<"text", "ch1.xhtml">>), Rel(<<"..", "cover.png">>) }

\* An element is known by its path below the document's root and its
\* attributes; a document is the sequence of its elements, in document order.
RootfileTag == "c:rootfiles/c:rootfile"
ItemTag == "opf:manifest/opf:item"
TitleTag == "opf:metadata/dc:title"

Element(tag, attrib) == [tag |-> tag, attrib |-> attrib]

RootfileElements ==
    { Element(RootfileTag, "full-path" :> p) : p \in RootfilePaths }
    \cup { Element(RootfileTag, NoAttrib) }

ManifestItems ==
    { Element(ItemTag, "href" :> h) : h \in Hrefs }
    \cup { Element(ItemTag, NoAttrib) }

SeqsOf(elements, n) == UNION { [1..k -> elements] : k \in 0..n }

\* a container descriptor: up to MaxRootfiles rootfile elements
ContainerDocs ==
    { XmlDoc(d) : d \in SeqsOf(RootfileElements, MaxRootfiles) }
\* a package document: its metadata, then up to MaxItems manifest items
PackageDocs ==
    { XmlDoc(<<Element(TitleTag, NoAttrib)>> \o d) :
        d \in SeqsOf(ManifestItems, MaxItems) }

\* The bytes served at a URL: distinct URLs serve distinct bytes (origin);
\* doc is the document the bytes parse to, or NotXml.
Bytes(url, doc) == [origin |-> url, doc |-> doc]

Ok(c) == [status |-> "ok", content |-> c]
HTTPError == [status |-> "HTTPError", content |-> NoContent]
ConnectionError == [status |-> "ConnectionError", content |-> NoContent]

\* What a GET of url may return: what the site returned before, or, for a
\* URL not requested so far, any response (docs: the documents to draw from).
Serve(url, docs) ==
    IF url \in DOMAIN site THEN { site[url] }
    ELSE { HTTPError, ConnectionError, Ok(Bytes(url, NotXml)) }
         \cup { Ok(Bytes(url, d)) : d \in docs }

\* parse_xml: the elements of well-formed bytes; ParseError(c) when
\* fromstring raises on c
ParseError(xml_content) == ~xml_content.doc.wellformed
parse_xml(xml_content) == xml_content.doc.elements

\* download_file without line 15: only a transport failure raises
download_file_raises_no_status(resp) == resp.status = "ConnectionError"

\* download_file, lines 14-15: session.get raises on a transport failure and
\* raise_for_status on a non-success status
download_file_raises(resp) == resp.status # "ok"

\* Element.findall(path): the elements at that path, in document order
findall(doc, path) == SelectSeq(doc, LAMBDA e : e.tag = path)

\* line 47 raises KeyError when an element lacks the attribute
HasAttrib(elems, a) == \A i \in 1..Len(elems) : a \in DOMAIN elems[i].attrib

\* line 47 reading the first rootfile only
rootfile_paths_of_first(rootfile_elements) ==
    IF rootfile_elements = <<>> THEN <<>>
    ELSE <<rootfile_elements[1].attrib["full-path"]>>

\* line 47: [r.attrib["full-path"] for r in rootfile_elements]
rootfile_paths_of(rootfile_elements) ==
    [i \in 1..Len(rootfile_elements) |->
        rootfile_elements[i].attrib["full-path"]]

\* line 71 joining href to base_url instead of rootfile_url
file_url_of_base(rootfile_url, href) == urljoin(base_url, href)

\* lines 62, 71, 72
rootfile_url_of(rootfile_path) == urljoin(base_url, rootfile_path)
file_url_of(rootfile_url, href) == urljoin(rootfile_url, href)
file_path_of(rootfile_path, href) == urljoin(rootfile_path, href)

\* lines 49, 50: the archive's default compression and that of mimetype
ZIP_DEFLATED == "ZIP_DEFLATED"
ZIP_STORED == "ZIP_STORED"
\* line 50 without compress_type: the archive's default applies
mimetype_compress_type_deflated == ZIP_DEFLATED
mimetype_compress_type == ZIP_STORED

\* lines 55-59 without the try block
swallowed_never(at, type) == FALSE

\* lines 55-59: the try block around the optional files' fetch
swallowed(at, type) == at = "l56" /\ type = "HTTPError"

----------------------------------------------------------------------------
(* download_epub *)

locals == <<mimetype, container_xml_content, rootfile_paths, content,
            meta_i, rootfile_i, manifest, item_i>>
cli == <<argv, session>>
rep == <<clock, run, prev>>

\* session.get(url): the request is issued and the site's answer is fixed
Get(url, resp) ==
    /\ requests' = Append(requests, url)
    /\ site' = IF url \in DOMAIN site THEN site ELSE site @@ (url :> resp)

\* An exception leaves download_epub; inside the with block (the file is
\* open) ZipFile.__exit__ closes the archive on the way out.
Raise(type, at) ==
    /\ exc' = [type |-> type, at |-> at]
    /\ pc' = "aborted"
    /\ disk' = IF disk = "partial" THEN "archive" ELSE disk

\* ZipFile.writestr(name, data, compress_type)
writestr(name, data, compress_type) ==
    entries' = Append(entries, [filename |-> name, data |-> data,
                                compress_type |-> compress_type,
                                date_time |-> clock])

\* where the loop of line 61 goes for index i
RootfileLoop(paths, i) == IF i <= Len(paths) THEN "l63" ELSE "l75"
\* where the loop of line 54 goes for index i
MetaLoop(i) ==
    IF i <= Len(optional_meta_files) THEN "l56"
    ELSE RootfileLoop(rootfile_paths, 1)
\* where the loop of line 69 goes for index i
ItemLoop(items, i) ==
    IF i <= Len(items) THEN "l70"
    ELSE RootfileLoop(rootfile_paths, rootfile_i + 1)

\* line 40
FetchMimetype ==
    /\ pc = "l40"
    /\ LET url == urljoin(base_url, mimetype_name) IN
       \E resp \in Serve(url, {}) :
          /\ Get(url, resp)
          /\ IF ~download_file_raises(resp)
             THEN /\ mimetype' = resp.content
                  /\ pc' = "l43"
                  /\ UNCHANGED <<exc, disk>>
             ELSE /\ Raise(resp.status, "l40")
                  /\ UNCHANGED mimetype
    /\ UNCHANGED <<container_xml_content, rootfile_paths, content, meta_i,
                   rootfile_i, manifest, item_i, entries, cli, rep>>

\* lines 42-43
FetchContainer ==
    /\ pc = "l43"
    /\ LET container_url == urljoin(base_url, container_name) IN
       \E resp \in Serve(container_url, ContainerDocs) :
          /\ Get(container_url, resp)
          /\ IF ~download_file_raises(resp)
             THEN /\ container_xml_content' = resp.content
                  /\ pc' = "l45"
                  /\ UNCHANGED <<exc, disk>>
             ELSE /\ Raise(resp.status, "l43")
                  /\ UNCHANGED container_xml_content
    /\ UNCHANGED <<mimetype, rootfile_paths, content, meta_i, rootfile_i,
                   manifest, item_i, entries, cli, rep>>

\* lines 45-47
ParseContainer ==
    /\ pc = "l45"
    /\ LET container_xml == parse_xml(container_xml_content) IN
       IF ParseError(container_xml_content)
       THEN Raise("ParseError", "l45") /\ UNCHANGED rootfile_paths
       ELSE LET rootfile_elements == findall(container_xml, RootfileTag) IN
            IF ~HasAttrib(rootfile_elements, "full-path")
            THEN Raise("KeyError", "l47") /\ UNCHANGED rootfile_paths
            ELSE /\ rootfile_paths' = rootfile_paths_of(rootfile_elements)
                 /\ pc' = "l49"
                 /\ UNCHANGED <<exc, disk>>
    /\ UNCHANGED <<mimetype, container_xml_content, content, meta_i,
                   rootfile_i, manifest, item_i, site, requests, entries,
                   cli, rep>>

\* line 49: the file is created (or truncated) and opened for writing
OpenZip ==
    /\ pc = "l49"
    /\ disk' = "partial"
    /\ pc' = "l50"
    /\ UNCHANGED <<locals, site, requests, entries, exc, cli, rep>>

\* line 50
WriteMimetype ==
    /\ pc = "l50"
    /\ writestr(mimetype_name, mimetype, mimetype_compress_type)
    /\ pc' = "l52"
    /\ UNCHANGED <<locals, site, requests, disk, exc, cli, rep>>

\* line 52, and the entry into the loop of line 54
WriteContainer ==
    /\ pc = "l52"
    /\ writestr(container_name, container_xml_content, ZIP_DEFLATED)
    /\ meta_i' = 1
    /\ pc' = MetaLoop(1)
    /\ UNCHANGED <<mimetype, container_xml_content, rootfile_paths, content,
                   rootfile_i, manifest, item_i, site, requests, disk, exc,
                   cli, rep>>

\* lines 55-56 and 58-59
FetchOptional ==
    /\ pc = "l56"
    /\ LET url == urljoin(base_url, optional_meta_files[meta_i]) IN
       \E resp \in Serve(url, {}) :
          /\ Get(url, resp)
          /\ IF ~download_file_raises(resp)
             THEN /\ content' = resp.content
                  /\ pc' = "l57"
                  /\ UNCHANGED <<exc, disk, meta_i, rootfile_i>>
             ELSE IF swallowed("l56", resp.status)
             THEN /\ meta_i' = meta_i + 1
                  /\ rootfile_i' = 1
                  /\ pc' = MetaLoop(meta_i + 1)
                  /\ UNCHANGED <<exc, disk, content>>
             ELSE /\ Raise(resp.status, "l56")
                  /\ UNCHANGED <<content, meta_i, rootfile_i>>
    /\ UNCHANGED <<mimetype, container_xml_content, rootfile_paths, manifest,
                   item_i, entries, cli, rep>>

\* line 57
WriteOptional ==
    /\ pc = "l57"
    /\ writestr(optional_meta_files[meta_i], content, ZIP_DEFLATED)
    /\ content' = NoContent
    /\ meta_i' = meta_i + 1
    /\ rootfile_i' = 1
    /\ pc' = MetaLoop(meta_i + 1)
    /\ UNCHANGED <<mimetype, container_xml_content, rootfile_paths, manifest,
                   item_i, site, requests, disk, exc, cli, rep>>

\* lines 62-63
FetchRootfile ==
    /\ pc = "l63"
    /\ LET rootfile_url == rootfile_url_of(rootfile_paths[rootfile_i]) IN
       \E resp \in Serve(rootfile_url, PackageDocs) :
          /\ Get(rootfile_url, resp)
          /\ IF ~download_file_raises(resp)
             THEN /\ content' = resp.content
                  /\ pc' = "l64"
                  /\ UNCHANGED <<exc, disk>>
             ELSE /\ Raise(resp.status, "l63")
                  /\ UNCHANGED content
    /\ UNCHANGED <<mimetype, container_xml_content, rootfile_paths, meta_i,
                   rootfile_i, manifest, item_i, entries, cli, rep>>

\* line 64
ParseRootfile ==
    /\ pc = "l64"
    /\ IF ParseError(content)
       THEN Raise("ParseError", "l64")
       ELSE pc' = "l65" /\ UNCHANGED <<exc, disk>>
    /\ UNCHANGED <<locals, site, requests, entries, cli, rep>>

\* lines 65-67, and the entry into the loop of line 69
WriteRootfile ==
    /\ pc = "l65"
    /\ writestr(rootfile_paths[rootfile_i], content, ZIP_DEFLATED)
    /\ LET items == findall(parse_xml(content), ItemTag) IN
       /\ manifest' = items
       /\ item_i' = 1
       /\ pc' = ItemLoop(items, 1)
       /\ rootfile_i' = IF items = <<>> THEN rootfile_i + 1 ELSE rootfile_i
    /\ content' = NoContent
    /\ UNCHANGED <<mimetype, container_xml_content, rootfile_paths, meta_i,
                   site, requests, disk, exc, cli, rep>>

\* lines 70-73
FetchItem ==
    /\ pc = "l70"
    /\ LET item == manifest[item_i] IN
       IF "href" \notin DOMAIN item.attrib
       THEN /\ Raise("KeyError", "l70")
            /\ UNCHANGED <<content, site, requests>>
       ELSE LET href == item.attrib["href"]
                rootfile_url == rootfile_url_of(rootfile_paths[rootfile_i])
                file_url == file_url_of(rootfile_url, href)
            IN  \E resp \in Serve(file_url, {}) :
                   /\ Get(file_url, resp)
                   /\ IF ~download_file_raises(resp)
                      THEN /\ content' = resp.content
                           /\ pc' = "l74"
                           /\ UNCHANGED <<exc, disk>>
                      ELSE /\ Raise(resp.status, "l73")
                           /\ UNCHANGED content
    /\ UNCHANGED <<mimetype, container_xml_content, rootfile_paths, meta_i,
                   rootfile_i, manifest, item_i, entries, cli, rep>>

\* line 74
WriteItem ==
    /\ pc = "l74"
    /\ LET href == manifest[item_i].attrib["href"]
           file_path == file_path_of(rootfile_paths[rootfile_i], href)
       IN  writestr(file_path, content, ZIP_DEFLATED)
    /\ content' = NoContent
    /\ item_i' = item_i + 1
    /\ pc' = ItemLoop(manifest, item_i + 1)
    /\ rootfile_i' = IF item_i + 1 > Len(manifest) THEN rootfile_i + 1
                     ELSE rootfile_i
    /\ UNCHANGED <<mimetype, container_xml_content, rootfile_paths, meta_i,
                   manifest, site, requests, disk, exc, cli, rep>>

\* the end of the with block of line 49: ZipFile.__exit__ closes the archive
CloseZip ==
    /\ pc = "l75"
    /\ disk' = "archive"
    /\ pc' = "done"
    /\ UNCHANGED <<locals, site, requests, entries, exc, cli, rep>>

download_epub ==
    \/ FetchMimetype \/ FetchContainer \/ ParseContainer \/ OpenZip
    \/ WriteMimetype \/ WriteContainer \/ FetchOptional \/ WriteOptional
    \/ FetchRootfile \/ ParseRootfile \/ WriteRootfile \/ FetchItem
    \/ WriteItem \/ CloseZip

----------------------------------------------------------------------------
(* main and the option callbacks *)

\* str.rsplit(sep, 1): the parts before and after the last sep
rsplit1(value, sep) ==
    IF \A i \in 1..Len(value) : value[i] # sep THEN <<value>>
    ELSE LET i == CHOOSE i \in 1..Len(value) :
                     /\ value[i] = sep
                     /\ \A j \in (i + 1)..Len(value) : value[j] # sep
         IN  <<SubSeq(value, 1, i - 1), SubSeq(value, i + 1, Len(value))>>

\* str.split(sep, 1): the parts before and after the first sep, or the
\* whole string when it holds no sep
split1(value, sep) ==
    IF \A i \in 1..Len(value) : value[i] # sep THEN <<value>>
    ELSE LET i == CHOOSE i \in 1..Len(value) :
                     /\ value[i] = sep
                     /\ \A j \in 1..(i - 1) : value[j] # sep
         IN  <<SubSeq(value, 1, i - 1), SubSeq(value, i + 1, Len(value))>>

\* str.strip()
RECURSIVE lstrip(_)
lstrip(str) == IF str # <<>> /\ Head(str) = " " THEN lstrip(Tail(str)) ELSE str
RECURSIVE rstrip(_)
rstrip(str) == IF str # <<>> /\ Last(str) = " " THEN rstrip(Front(str)) ELSE str
strip(str) == lstrip(rstrip(str))

\* "key, val = value.split(sep, 1)" raises ValueError, turned BadParameter
BadParameter(value, sep) == Len(split1(value, sep)) # 2

EmptyDict == [k \in {} |-> <<>>]

\* the loop of parse_headers, parse_cookies and parse_params over the given
\* values: a later value replaces an earlier one under the same key
RECURSIVE parse_pairs(_, _)
parse_pairs(value, sep) ==
    IF value = <<>> THEN EmptyDict
    ELSE LET kv == split1(Last(value), sep)
         IN  (strip(kv[1]) :> strip(kv[2])) @@ parse_pairs(Front(value), sep)

\* An option that is not given is <<>>: --auth holds at most one value.
\* parse_auth returns None (here <<>>) or the tuple (username, password).
parse_auth(value) == IF value = <<>> THEN <<>> ELSE split1(value[1], ":")
parse_headers(value) == parse_pairs(value, ":")
parse_cookies(value) == parse_pairs(value, "=")
parse_params(value) == parse_pairs(value, "=")

AnyBad(value, sep) == \E i \in 1..Len(value) : BadParameter(value[i], sep)

\* click runs the callbacks on the option values, then main, lines 176-202;
\* line 204 enters download_epub
main ==
    /\ pc = "cli"
    /\ IF \/ AnyBad(argv.auth, ":") \/ AnyBad(argv.header, ":")
          \/ AnyBad(argv.cookie, "=") \/ AnyBad(argv.param, "=")
       THEN /\ pc' = "usage_error"
            /\ exc' = [type |-> "BadParameter", at |-> "cli"]
            /\ UNCHANGED session
       ELSE /\ session' = [auth |-> parse_auth(argv.auth),
                           headers |-> parse_headers(argv.header),
                           cookies |-> parse_cookies(argv.cookie),
                           params |-> parse_params(argv.param)]
            /\ pc' = "l40"
            /\ UNCHANGED exc
    /\ UNCHANGED <<argv, locals, site, requests, disk, entries, rep>>

NoOptions == [auth |-> <<>>, header |-> <<>>, cookie |-> <<>>, param |-> <<>>]
DefaultSession ==
    [auth |-> <<>>, headers |-> EmptyDict, cookies |-> EmptyDict,
     params |-> EmptyDict]

----------------------------------------------------------------------------
(* Specifications *)

InitLocals ==
    /\ mimetype = NoContent
    /\ container_xml_content = NoContent
    /\ rootfile_paths = <<>>
    /\ content = NoContent
    /\ meta_i = 1
    /\ rootfile_i = 1
    /\ manifest = <<>>
    /\ item_i = 1
    /\ requests = <<>>
    /\ entries = <<>>
    /\ exc = NoExc

NoRun == [pc |-> "none", entries |-> <<>>]

\* The part of a site below META-INF that is optional: the files numbered
\* in served are served, the others answer with an error status.
OptionalPart(served) ==
    LET urls == { urljoin(base_url, optional_meta_files[i]) :
                    i \in 1..Len(optional_meta_files) }
    IN  [u \in urls |->
            IF \E i \in served : u = urljoin(base_url, optional_meta_files[i])
            THEN Ok(Bytes(u, NotXml)) ELSE HTTPError]

\* The rest of a site that serves a whole book: mimetype, a container with
\* the one rootfile OEBPS/content.opf holding doc, and every href below it.
BookPart(doc) ==
    LET rootfile_path == Rel(<<"OEBPS", "content.opf">>)
        rootfile_url == urljoin(base_url, rootfile_path)
        container == XmlDoc(<<Element(RootfileTag, "full-path" :> rootfile_path)>>)
        urls == { urljoin(base_url, mimetype_name),
                  urljoin(base_url, container_name), rootfile_url }
                \cup { urljoin(rootfile_url, h) : h \in Hrefs }
    IN  [u \in urls |->
            IF u = urljoin(base_url, container_name) THEN Ok(Bytes(u, container))
            ELSE IF u = rootfile_url THEN Ok(Bytes(u, doc))
            ELSE Ok(Bytes(u, NotXml))]

BookSite(served, doc) == OptionalPart(served) @@ BookPart(doc)

\* the optional files served by the sites whose book is left open
OptionalPatterns == { {}, {2, 4}, 1..Len(optional_meta_files) }

\* download_epub called with a default session.  Of the site either the
\* optional files are fixed and every other URL answers in any way, or the
\* book is fixed and every optional file answers in any way.
Init ==
    /\ pc = "l40"
    /\ argv = NoOptions
    /\ session = DefaultSession
    /\ site \in { OptionalPart(served) : served \in OptionalPatterns }
                \cup { BookPart(doc) : doc \in PackageDocs }
    /\ InitLocals
    /\ disk = "absent"
    /\ clock = 0
    /\ run = 1
    /\ prev = NoRun

Next == download_epub

Spec == Init /\ [][Next]_vars

\* the same run repeated against the same site, lines 207-208 run again
Restart ==
    /\ run = 1
    /\ pc \in {"done", "aborted"}
    /\ run' = 2
    /\ prev' = [pc |-> pc, entries |-> entries]
    /\ \E t \in clock..MaxClock : clock' = t
    /\ pc' = "l40"
    /\ mimetype' = NoContent
    /\ container_xml_content' = NoContent
    /\ rootfile_paths' = <<>>
    /\ content' = NoContent
    /\ meta_i' = 1
    /\ rootfile_i' = 1
    /\ manifest' = <<>>
    /\ item_i' = 1
    /\ requests' = <<>>
    /\ entries' = <<>>
    /\ exc' = NoExc
    /\ UNCHANGED <<argv, session, site, disk>>

InitRepeat ==
    /\ pc = "l40"
    /\ argv = NoOptions
    /\ session = DefaultSession
    /\ \E served \in SUBSET (1..Len(optional_meta_files)), doc \in PackageDocs :
          site = BookSite(served, doc)
    /\ InitLocals
    /\ disk = "absent"
    /\ clock = 0
    /\ run = 1
    /\ prev = NoRun

NextRepeat == Next \/ Restart

SpecRepeat == InitRepeat /\ [][NextRepeat]_vars

\* the option values the model's command lines draw from
Chars(sep) == {"k", sep, " "}
Strings(sep) == UNION { [1..n -> Chars(sep)] : n \in 0..MaxOptLen }
GoodValue(sep) == <<"k", sep, "k">>
BadValue == <<"k">>
Broad(sep) == UNION { [1..n -> Strings(sep)] : n \in 0..MaxOptValues }
BroadAuth == { <<>> } \cup { <<v>> : v \in Strings(":") }
Narrow(sep) == { <<GoodValue(sep)>>, <<BadValue>> }

\* the command lines: one option takes any value, the others a fixed
\* well-formed or malformed one
CommandLines ==
    [auth : BroadAuth, header : Narrow(":"), cookie : Narrow("="),
     param : Narrow("=")]
    \cup [auth : Narrow(":"), header : Broad(":"), cookie : Narrow("="),
          param : Narrow("=")]
    \cup [auth : Narrow(":"), header : Narrow(":"), cookie : Broad("="),
          param : Narrow("=")]
    \cup [auth : Narrow(":"), header : Narrow(":"), cookie : Narrow("="),
          param : Broad("=")]

InitCLI ==
    /\ pc = "cli"
    /\ argv \in CommandLines
    /\ session = DefaultSession
    /\ site = BookSite({1}, XmlDoc(<<Element(TitleTag, NoAttrib),
                         Element(ItemTag, "href" :> Rel(<<"text", "ch1.xhtml">>))>>))
    /\ InitLocals
    /\ disk = "absent"
    /\ clock = 0
    /\ run = 1
    /\ prev = NoRun

NextCLI == main \/ Next

SpecCLI == InitCLI /\ [][NextCLI]_vars

----------------------------------------------------------------------------
(* What the site serves, read off the site alone *)

MimetypeUrl == [netloc |-> "http://x", path |-> <<"", "book", "mimetype">>]
ContainerUrl ==
    [netloc |-> "http://x", path |-> <<"", "book", "META-INF", "container.xml">>]
OptionalUrl(i) ==
    [netloc |-> "http://x",
     path |-> <<"", "book">> \o optional_meta_files[i].path]

Served(url) == url \in DOMAIN site /\ site[url].status = "ok"

\* the elements with tag t of the document served at url
ElementsAt(url, t) ==
    SelectSeq(site[url].content.doc.elements, LAMBDA e : e.tag = t)

\* the full-path of every rootfile of the served container, in order
ContainerRootfiles ==
    LET elems == ElementsAt(ContainerUrl, RootfileTag)
    IN  [i \in 1..Len(elems) |-> elems[i].attrib["full-path"]]

\* the hrefs of the manifest served for a rootfile path, in order
ManifestHrefs(rootfile_path) ==
    LET elems == ElementsAt(urljoin(base_url, rootfile_path), ItemTag)
    IN  [j \in 1..Len(elems) |-> elems[j].attrib["href"]]

\* every rootfile of the served container is served
RootfilesServed ==
    \A i \in 1..Len(ContainerRootfiles) :
       Served(urljoin(base_url, ContainerRootfiles[i]))

RECURSIVE Concat(_)
Concat(seqs) == IF seqs = <<>> THEN <<>> ELSE Head(seqs) \o Concat(Tail(seqs))

\* the URLs a complete run requests, in order
ExpectedRequests ==
    <<MimetypeUrl, ContainerUrl>>
    \o [i \in 1..Len(optional_meta_files) |-> OptionalUrl(i)]
    \o Concat([i \in 1..Len(ContainerRootfiles) |->
          LET rp == ContainerRootfiles[i]
              ru == urljoin(base_url, rp)
              hrefs == ManifestHrefs(rp)
          IN  <<ru>> \o [j \in 1..Len(hrefs) |-> urljoin(ru, hrefs[j])]])

\* name and bytes of the entries a complete run writes for the rootfiles
ExpectedRootfileEntries ==
    Concat([i \in 1..Len(ContainerRootfiles) |->
          LET rp == ContainerRootfiles[i]
              ru == urljoin(base_url, rp)
              hrefs == ManifestHrefs(rp)
          IN  << <<rp, site[ru].content>> >>
              \o [j \in 1..Len(hrefs) |->
                    <<urljoin(rp, hrefs[j]),
                      site[urljoin(ru, hrefs[j])].content>>]])

\* name and bytes of the entries of the optional files the site serves
ExpectedOptionalEntries ==
    LET served == SelectSeq([i \in 1..Len(optional_meta_files) |-> i],
                            LAMBDA i : Served(OptionalUrl(i)))
    IN  [k \in 1..Len(served) |->
            <<optional_meta_files[served[k]],
              site[OptionalUrl(served[k])].content>>]

NameAndBytes(es) == [k \in 1..Len(es) |-> <<es[k].filename, es[k].data>>]
Origins(es) == [k \in 1..Len(es) |-> es[k].data.origin]
IsPrefix(s, t) == Len(s) <= Len(t) /\ s = SubSeq(t, 1, Len(s))

----------------------------------------------------------------------------
(* Claims *)

\* C1: whenever the archive holds an entry, its first entry is named
\* mimetype, is stored without compression and holds exactly the bytes
\* served at base_url joined with "mimetype"; a completed run has it.
C1_MimetypeFirst ==
    /\ entries # <<>> =>
          /\ entries[1].filename = Rel(<<"mimetype">>)
          /\ entries[1].compress_type = "ZIP_STORED"
          /\ Served(MimetypeUrl)
          /\ entries[1].data = site[MimetypeUrl].content
    /\ pc = "done" => entries # <<>> /\ disk = "archive"

C1_Witness == pc = "done" /\ Len(entries) >= 4 /\ run = 1

\* C2: in a completed run every manifest item of every processed rootfile
\* has an entry named href joined to the rootfile's path, holding the bytes
\* served at href joined to the rootfile's URL; OEBPS/content.opf with href
\* text/ch1.xhtml gives OEBPS/text/ch1.xhtml fetched from
\* {base}/OEBPS/text/ch1.xhtml.
C2_Example ==
    LET rp == Rel(<<"OEBPS", "content.opf">>)
        href == Rel(<<"text", "ch1.xhtml">>)
    IN  /\ \E i \in 1..Len(ContainerRootfiles) : ContainerRootfiles[i] = rp
        /\ \E j \in 1..Len(ManifestHrefs(rp)) : ManifestHrefs(rp)[j] = href

C2_ManifestEntries ==
    pc = "done" =>
       /\ \A i \in 1..Len(ContainerRootfiles) :
             LET rp == ContainerRootfiles[i]
                 ru == urljoin(base_url, rp)
                 hrefs == ManifestHrefs(rp)
             IN  Served(ru) /\ \A j \in 1..Len(hrefs) :
                    \E k \in 1..Len(entries) :
                       /\ entries[k].filename = urljoin(rp, hrefs[j])
                       /\ Served(urljoin(ru, hrefs[j]))
                       /\ entries[k].data = site[urljoin(ru, hrefs[j])].content
       /\ (RootfilesServed /\ C2_Example) =>
             \E k \in 1..Len(entries) :
                /\ entries[k].filename = Rel(<<"OEBPS", "text", "ch1.xhtml">>)
                /\ entries[k].data.origin =
                      [netloc |-> "http://x",
                       path |-> <<"", "book", "OEBPS", "text", "ch1.xhtml">>]

C2_Witness ==
    /\ pc = "done"
    /\ C2_Example
    /\ Len(ContainerRootfiles) = 2
    /\ ContainerRootfiles[1] # ContainerRootfiles[2]

\* C3: after an aborted run no readable archive exists at the output path.
C3_NoArchiveAfterAbort == pc = "aborted" => disk # "archive"

\* C4: a run whose container descriptor parses and holds zero rootfile
\* elements ends aborted, with no output file.
C4_ZeroRootfilesAbort ==
    (/\ pc \in {"done", "aborted"}
     /\ ~ParseError(container_xml_content)
     /\ findall(parse_xml(container_xml_content), RootfileTag) = <<>>)
    => (pc = "aborted" /\ disk = "absent")

\* C5: a manifest item without href aborts the run and leaves no archive.
C5_MissingHrefNoArchive ==
    (exc.type = "KeyError" /\ exc.at = "l70") =>
        (pc = "aborted" /\ disk # "archive")

\* C6: an HTTP status error on an optional META-INF file never ends the run;
\* a completed run holds, after mimetype and the container, exactly the
\* optional files the site serves, each under its own path, and then the
\* entries of the rootfiles, which do not depend on the optional files.
C6_OptionalSwallowed ==
    /\ (pc = "aborted" /\ exc.type = "HTTPError") =>
          \A i \in 1..Len(optional_meta_files) :
             Last(requests) # OptionalUrl(i)
    /\ pc = "done" =>
          /\ RootfilesServed
          /\ NameAndBytes(entries) =
             << <<Rel(<<"mimetype">>), site[MimetypeUrl].content>>,
                <<Rel(<<"META-INF", "container.xml">>),
                  site[ContainerUrl].content>> >>
             \o ExpectedOptionalEntries \o ExpectedRootfileEntries

C6_Witness ==
    /\ pc = "done"
    /\ \E i, j \in 1..Len(optional_meta_files) :
          /\ i < j
          /\ site[OptionalUrl(i)].status = "HTTPError"
          /\ Served(OptionalUrl(j))
    /\ Len(ExpectedRootfileEntries) >= 2

\* C7: a fetch of a required resource that returns a non-success HTTP status
\* ends the run at once: the run is aborted with that error, no entry is
\* written, and an aborted run issues no request and writes no entry.
C7_RequiredAborts ==
    [][ /\ (/\ requests' # requests
            /\ site'[Last(requests')].status = "HTTPError"
            /\ pc # "l56")
           => (/\ pc' = "aborted"
               /\ exc'.type = "HTTPError"
               /\ entries' = entries)
        /\ pc = "aborted" => (requests' = requests /\ entries' = entries)
      ]_vars

C7_Witness ==
    /\ pc = "aborted"
    /\ exc = [type |-> "HTTPError", at |-> "l73"]
    /\ Len(entries) >= 4
    /\ site[Last(requests)].status = "HTTPError"

\* C8: the same run repeated against the same site writes the same archive,
\* entry metadata included.
C8_Deterministic ==
    (run = 2 /\ pc = "done" /\ prev.pc = "done") => entries = prev.entries

\* C9: a command line with a malformed option value ends in a usage error
\* with no request issued and no output file opened; a well-formed value is
\* split at its first separator only.
HasSep(value, sep) == \E i \in 1..Len(value) : value[i] = sep
Malformed(value, sep) == \E n \in 1..Len(value) : ~HasSep(value[n], sep)
\* key and val are value cut at a separator with no separator before it
CutAtFirst(value, sep, key, val) ==
    value = key \o <<sep>> \o val /\ ~HasSep(key, sep)
Prefixes(value) == { SubSeq(value, 1, n) : n \in 0..Len(value) }
Suffixes(value) == { SubSeq(value, n, Len(value)) : n \in 1..(Len(value) + 1) }
Trimmed(str, t) ==
    /\ \E a, b \in 0..Len(str) :
          /\ str = [x \in 1..a |-> " "] \o t \o [x \in 1..b |-> " "]
    /\ t # <<>> => (t[1] # " " /\ t[Len(t)] # " ")
\* dict holds, for every value, its first-cut key, trimmed, and under it the
\* trimmed rest of the last value with that key
PairsOf(value, sep, dict) ==
    \A n \in 1..Len(value) :
       \E key \in Prefixes(value[n]), val \in Suffixes(value[n]) :
          /\ CutAtFirst(value[n], sep, key, val)
          /\ \E k \in DOMAIN dict :
                /\ Trimmed(key, k)
                /\ (\A m \in (n + 1)..Len(value) :
                       \A key2 \in Prefixes(value[m]) :
                          (\E val2 \in Suffixes(value[m]) :
                              CutAtFirst(value[m], sep, key2, val2))
                          => ~Trimmed(key2, k))
                   => Trimmed(val, dict[k])

C9_OptionValidation ==
    /\ (\/ Malformed(argv.auth, ":") \/ Malformed(argv.header, ":")
        \/ Malformed(argv.cookie, "=") \/ Malformed(argv.param, "="))
       => (/\ pc \in {"cli", "usage_error"}
           /\ requests = <<>>
           /\ disk = "absent"
           /\ entries = <<>>)
    /\ pc \notin {"cli", "usage_error"} =>
          /\ argv.auth = <<>> => session.auth = <<>>
          /\ argv.auth # <<>> =>
                /\ Len(session.auth) = 2
                /\ CutAtFirst(argv.auth[1], ":", session.auth[1], session.auth[2])
          /\ PairsOf(argv.header, ":", session.headers)
          /\ PairsOf(argv.cookie, "=", session.cookies)
          /\ PairsOf(argv.param, "=", session.params)

C9_Witness ==
    /\ pc = "usage_error"
    /\ Malformed(argv.cookie, "=")
    /\ ~Malformed(argv.auth, ":")
    /\ argv.auth # <<>>
    /\ requests = <<>>

\* C10: at every moment the entries hold the bytes of the successful
\* requests, in request order, and at most one fetched resource (two before
\* the first write) is not written yet; a completed run has requested
\* mimetype, the container, the optional files, then every rootfile of the
\* container in document order, each followed by its manifest items in
\* manifest order, and its last entries are those rootfiles and items, in
\* that order.
C10_SequentialOrder ==
    /\ LET fetched == SelectSeq(requests, LAMBDA u : site[u].status = "ok")
       IN  /\ IsPrefix(Origins(entries), fetched)
           /\ Len(fetched) - Len(entries) <= 2
           /\ Len(entries) >= 2 => Len(fetched) - Len(entries) <= 1
    /\ pc = "done" =>
          /\ RootfilesServed
          /\ requests = ExpectedRequests
          /\ Len(entries) >= Len(ExpectedRootfileEntries)
          /\ SubSeq(NameAndBytes(entries),
                    Len(entries) - Len(ExpectedRootfileEntries) + 1,
                    Len(entries)) = ExpectedRootfileEntries

C10_Witness ==
    /\ pc = "done"
    /\ Len(ContainerRootfiles) = 2
    /\ ContainerRootfiles[1] # ContainerRootfiles[2]
    /\ Len(ManifestHrefs(ContainerRootfiles[1])) = 2
    /\ ManifestHrefs(ContainerRootfiles[1])[1] # ManifestHrefs(ContainerRootfiles[1])[2]
    /\ Len(ManifestHrefs(ContainerRootfiles[2])) >= 1

====
